---- MODULE Spec2Model ----
(***************************************************************************)
(* The two batch jobs of the repository and the table they share:          *)
(*   sync_keys.py     reconciles a fresh bucket listing against            *)
(*                    all_keys.csv (sync_files) and writes sync_stats.txt; *)
(*   archive_files.py submits the pending rows of all_keys.csv to the      *)
(*                    archiving endpoint and writes archive_stats.txt.     *)
(* A path is modelled by a natural number; the order of the numbers is the *)
(* lexicographic order of the path strings.  Field values are strings, the *)
(* empty string being Python's falsy "" (and None, which the constructor   *)
(* treats alike).                                                          *)
(***************************************************************************)
EXTENDS Naturals, Sequences, FiniteSets

\* ------------------------------------------------------------------ bounds
\* paths are 1..MaxPath; at most MaxRuns runs (of either job) are started
MaxPath == 2
MaxRuns == 3
\* listing lines have at most MaxLineLen characters
MaxLineLen == 9

Paths == 1..MaxPath
\* run dates, as datetime.now().strftime("%Y-%m-%d") produces them
Dates == {"2024-01-01", "2024-01-02"}
\* (creation, size) pairs a listing can report for a path
Metas == {<<"2023-05-01 10:00:00", "100">>, <<"2023-06-01 11:00:00", "200">>}
\* locations the archiving endpoint can answer with
Urls == {"https://web.archive.org/web/1/x", "https://web.archive.org/web/2/x"}
\* snapshots: file_data of sync_files, path -> (creation, size); the listings
\* tried report one (creation, size) for all their files
Snapshots == UNION {{[p \in S |-> m] : m \in Metas} : S \in SUBSET Paths}

InitialCrawlMark == "initial crawl"

\* ------------------------------------------------------------ sync_keys.py
\* FileRecord.__init__: `added or now`, `removed or ""`, `wayback_url or ""`
FileRecord(creation, size, fullpath, added, removed, wayback_url, now) ==
    [creation |-> creation, size |-> size, fullpath |-> fullpath,
     added |-> IF added = "" THEN now ELSE added,
     removed |-> removed, wayback_url |-> wayback_url]

\* the row of the file that a dict keyed by fullpath keeps: the last one
LastRow(rows, p) ==
    LET k == CHOOSE k \in DOMAIN rows :
                 /\ rows[k].fullpath = p
                 /\ \A j \in DOMAIN rows : rows[j].fullpath = p => j <= k
    IN rows[k]

\* mutant: the `added` column is not passed on, so the constructor's default applies
load_existing_csv_NoAdded(exists, rows, now) ==
    IF ~exists THEN <<>>
    ELSE [p \in {rows[k].fullpath : k \in DOMAIN rows} |->
            LET row == LastRow(rows, p)
            IN FileRecord(row.creation, row.size, p, "", row.removed,
                          row.wayback_url, now)]

load_existing_csv(exists, rows, now) ==
    IF ~exists THEN <<>>
    ELSE [p \in {rows[k].fullpath : k \in DOMAIN rows} |->
            LET row == LastRow(rows, p)
            IN FileRecord(row.creation, row.size, p, row.added, row.removed,
                          row.wayback_url, now)]

RECURSIVE SortedByPath(_)
SortedByPath(records) ==
    IF records = {} THEN <<>>
    ELSE LET r == CHOOSE r \in records :
                      \A q \in records : r.fullpath <= q.fullpath
         IN <<r>> \o SortedByPath(records \ {r})

\* mutant: the rows are written in descending order of fullpath
RECURSIVE save_csv_Descending(_)
save_csv_Descending(records) ==
    IF records = {} THEN <<>>
    ELSE LET r == CHOOSE r \in records :
                      \A q \in records : r.fullpath >= q.fullpath
         IN <<r>> \o save_csv_Descending(records \ {r})

\* save_csv: the rows written, sorted by fullpath
save_csv(records) == SortedByPath(records)

\* mutant: an empty table does not make the run an initial crawl
IsInitialCrawl_FlagOnly(initial_crawl, existing_records) == initial_crawl

IsInitialCrawl(initial_crawl, existing_records) ==
    initial_crawl \/ DOMAIN existing_records = {}

AddedDate(is_initial_crawl, today) ==
    IF is_initial_crawl THEN InitialCrawlMark ELSE today

\* mutant: the record of a path seen again is built anew
PresentRecord_Rebuilt(existing_records, file_data, fullpath, added_date, today) ==
    FileRecord(file_data[fullpath][1], file_data[fullpath][2], fullpath,
               added_date, "", "", today)

\* mutant: a path seen again is present again: its `removed` is cleared
PresentRecord_ClearRemoved(existing_records, file_data, fullpath, added_date, today) ==
    IF fullpath \in DOMAIN existing_records
    THEN [existing_records[fullpath] EXCEPT !.creation = file_data[fullpath][1],
                                            !.size = file_data[fullpath][2],
                                            !.removed = ""]
    ELSE FileRecord(file_data[fullpath][1], file_data[fullpath][2], fullpath,
                    added_date, "", "", today)

\* the record appended for a path of current_files
PresentRecord(existing_records, file_data, fullpath, added_date, today) ==
    IF fullpath \in DOMAIN existing_records
    THEN [existing_records[fullpath] EXCEPT !.creation = file_data[fullpath][1],
                                            !.size = file_data[fullpath][2]]
    ELSE FileRecord(file_data[fullpath][1], file_data[fullpath][2], fullpath,
                    added_date, "", "", today)

\* mutant: the removal date is written without the `if not record.removed` test
AbsentRecord_Overwrite(record, today) == [record EXCEPT !.removed = today]

\* the record appended for a path of existing_records not in current_files
AbsentRecord(record, today) ==
    IF record.removed = "" THEN [record EXCEPT !.removed = today] ELSE record

\* mutant: the removal pass also runs in an initial crawl
AbsentPaths_Always(existing_records, current_files, is_initial_crawl) ==
    DOMAIN existing_records \ current_files

\* mutant: only the records removed in this run are carried over
AbsentPaths_DropRemoved(existing_records, current_files, is_initial_crawl) ==
    IF is_initial_crawl THEN {}
    ELSE {p \in DOMAIN existing_records \ current_files :
             existing_records[p].removed = ""}

\* the paths of existing_records carried over by the removal pass
AbsentPaths(existing_records, current_files, is_initial_crawl) ==
    IF is_initial_crawl THEN {} ELSE DOMAIN existing_records \ current_files

sync_files(exists, rows, file_data, initial_crawl, today) ==
    LET existing_records == load_existing_csv(exists, rows, today)
        current_files == DOMAIN file_data
        is_initial_crawl == IsInitialCrawl(initial_crawl, existing_records)
        added_date == AddedDate(is_initial_crawl, today)
        present == {PresentRecord(existing_records, file_data, p, added_date, today) :
                       p \in current_files}
        carried == AbsentPaths(existing_records, current_files, is_initial_crawl)
        absent == {AbsentRecord(existing_records[p], today) : p \in carried}
    IN [rows |-> save_csv(present \cup absent),
        new_urls |-> Cardinality(current_files \ DOMAIN existing_records),
        removed_urls |-> Cardinality({p \in carried : existing_records[p].removed = ""})]

\* ------------------------------------------- sync_keys.py: parse_s3_line
\* A listing line is a sequence of characters: a whitespace character, the
\* path separator, and one character standing for all the others.
Chars == {" ", "/", "x"}
Lines == UNION {[1..n -> Chars] : n \in 0..MaxLineLen}

IsSpace(c) == c = " "

\* the first position from k on that holds no whitespace (Len + 1 if none)
RECURSIVE SkipSpaces(_, _)
SkipSpaces(s, k) ==
    IF k > Len(s) \/ ~IsSpace(s[k]) THEN k ELSE SkipSpaces(s, k + 1)

\* the first position from k on that holds whitespace (Len + 1 if none)
RECURSIVE TokenEnd(_, _)
TokenEnd(s, k) ==
    IF k > Len(s) \/ IsSpace(s[k]) THEN k ELSE TokenEnd(s, k + 1)

\* str.split(None, maxsplit) from position k: runs of whitespace separate the
\* fields, leading whitespace is dropped, and after maxsplit fields the rest
\* of the string, if any is left past the whitespace, is the last field
RECURSIVE SplitWhitespace(_, _, _)
SplitWhitespace(s, k, maxsplit) ==
    LET j == SkipSpaces(s, k)
    IN IF j > Len(s) THEN <<>>
       ELSE IF maxsplit = 0 THEN <<SubSeq(s, j, Len(s))>>
       ELSE LET e == TokenEnd(s, j)
            IN <<SubSeq(s, j, e - 1)>> \o SplitWhitespace(s, e, maxsplit - 1)

\* the number of splits of parse_s3_line, and its number of fields
MaxSplit == 3
FieldCount == 4

\* the result None of parse_s3_line
NotALine == [accepted |-> FALSE, creation |-> <<>>, size |-> <<>>, fullpath |-> <<>>]

\* mutant: the line is split at every run of whitespace
parse_s3_line_SplitAll(line) ==
    LET parts == SplitWhitespace(line, 1, Len(line))
    IN IF Len(parts) # FieldCount THEN NotALine
       ELSE IF parts[4][Len(parts[4])] = "/" THEN NotALine
       ELSE [accepted |-> TRUE,
             creation |-> parts[1] \o <<" ">> \o parts[2],
             size |-> parts[3],
             fullpath |-> parts[4]]

parse_s3_line(line) ==
    LET parts == SplitWhitespace(line, 1, MaxSplit)
    IN IF Len(parts) # FieldCount THEN NotALine
       ELSE IF parts[4][Len(parts[4])] = "/" THEN NotALine
       ELSE [accepted |-> TRUE,
             creation |-> parts[1] \o <<" ">> \o parts[2],
             size |-> parts[3],
             fullpath |-> parts[4]]

\* sync_files, lines 162-169, for one line: the entries the line adds to
\* file_data, as (fullpath, creation, size)
LineEntries(line) ==
    LET result == parse_s3_line(line)
    IN IF ~result.accepted THEN {}
       ELSE {<<result.fullpath, result.creation, result.size>>}

\* ------------------------------------------------------------------- state
VARIABLES
    csv_exists,     \* all_keys.csv exists
    csv_rows,       \* its data rows, in file order
    sync_stats,     \* sync_stats.txt: <<new_urls, removed_urls>>, <<>> if not written
    archive_stats,  \* archive_stats.txt: <<new_archives, already_archived, failed>>
    run,            \* the inputs of the latest sync run
    sync_seq,       \* number of sync runs so far
    repeated,       \* the latest sync run repeated the snapshot of the one before
                    \* it, both without the initial-crawl flag
    archive_seq,    \* number of archive runs started so far
    pc,             \* position of the archive job ("idle": not running)
    records,        \* archive job: the rows loaded, in file order
    i,              \* archive job: 1-based index of the row of the loop
    archived,       \* archive job: counter of successes
    skipped,        \* archive job: counter of rows already archived
    elapsed,        \* archive job: time.time() - start_time
    timeout,        \* archive job: args.timeout
    last_req,       \* archive job: the row and outcome of the latest request
    failed,         \* archive job: the rows whose request failed in this run
    req_at,         \* archive job: `elapsed` when the latest request went out
    line,           \* parser: the listing line at hand
    scanned,        \* parser: the line has been through the loop of sync_files
    parsed,         \* parser: what parse_s3_line returned for it
    line_data       \* parser: the entries of file_data after the line

vars == <<csv_exists, csv_rows, sync_stats, archive_stats, run, sync_seq,
          repeated, archive_seq, pc, records, i, archived, skipped, elapsed, timeout,
          last_req, failed, req_at, line, scanned, parsed, line_data>>

table_vars == <<csv_exists, csv_rows>>
sync_vars == <<sync_stats, run, sync_seq, repeated>>
job_vars == <<pc, records, i, archived, skipped, elapsed, timeout, last_req,
              failed, req_at>>
log_vars == <<failed, req_at>>
parse_vars == <<line, scanned, parsed, line_data>>

\* program constants of archive_files.py
DefaultTimeout == 300
PaceDelay == 2
RateLimitDelay == 60

\* values of --timeout tried: one that expires after the first attempt, and the default
Timeouts == {1, DefaultTimeout}
\* failures of urlopen other than HTTP 429: another HTTP error, any other exception
Failures == {"http_error", "network_error"}

NoRun == [file_data |-> <<>>, initial_crawl |-> FALSE, today |-> ""]
NoRequest == [idx |-> 0, outcome |-> "none"]

JobsInit ==
    /\ csv_exists = FALSE
    /\ csv_rows = <<>>
    /\ sync_stats = <<>>
    /\ archive_stats = <<>>
    /\ run = NoRun
    /\ sync_seq = 0
    /\ repeated = FALSE
    /\ archive_seq = 0
    /\ pc = "idle"
    /\ records = <<>>
    /\ i = 0
    /\ archived = 0
    /\ skipped = 0
    /\ elapsed = 0
    /\ timeout = 0
    /\ last_req = NoRequest
    /\ failed = {}
    /\ req_at = 0

\* no line is being parsed
ParseIdle ==
    /\ line = <<>>
    /\ scanned = FALSE
    /\ parsed = NotALine
    /\ line_data = {}

Init == JobsInit /\ ParseIdle

\* ------------------------------------------------- sync_keys.py: sync_files
SyncRun(file_data, initial_crawl, today) ==
    /\ sync_seq + archive_seq < MaxRuns
    /\ LET out == sync_files(csv_exists, csv_rows, file_data, initial_crawl, today)
       IN /\ csv_exists' = TRUE
          /\ csv_rows' = out.rows
          /\ sync_stats' = <<out.new_urls, out.removed_urls>>
    /\ run' = [file_data |-> file_data, initial_crawl |-> initial_crawl, today |-> today]
    /\ sync_seq' = sync_seq + 1
    /\ repeated' = (/\ sync_seq > 0
                    /\ file_data = run.file_data
                    /\ ~initial_crawl
                    /\ ~run.initial_crawl)
    /\ UNCHANGED <<archive_stats, archive_seq>>
    /\ UNCHANGED job_vars
    /\ UNCHANGED parse_vars

\* ------------------------------------------------- archive_files.py: main
JobReset ==
    /\ pc' = "idle"
    /\ records' = <<>>
    /\ i' = 0
    /\ archived' = 0
    /\ skipped' = 0
    /\ elapsed' = 0
    /\ timeout' = 0
    /\ last_req' = NoRequest
    /\ failed' = {}
    /\ req_at' = 0

\* lines 25-32: the stats file is reset, the table is missing, return 1
ArchiveNoCsv ==
    /\ pc = "idle"
    /\ sync_seq + archive_seq < MaxRuns
    /\ ~csv_exists
    /\ archive_stats' = <<0, 0, 0>>
    /\ archive_seq' = archive_seq + 1
    /\ UNCHANGED <<table_vars, sync_vars, job_vars>>
    /\ UNCHANGED parse_vars

\* lines 25-42: the stats file is reset, the table is loaded, the clock starts
ArchiveStart(t) ==
    /\ pc = "idle"
    /\ sync_seq + archive_seq < MaxRuns
    /\ csv_exists
    /\ archive_stats' = <<0, 0, 0>>
    /\ archive_seq' = archive_seq + 1
    /\ records' = csv_rows
    /\ i' = 1
    /\ archived' = 0
    /\ skipped' = 0
    /\ elapsed' = 0
    /\ timeout' = t
    /\ last_req' = NoRequest
    /\ failed' = {}
    /\ req_at' = 0
    /\ pc' = "loop"
    /\ UNCHANGED <<table_vars, sync_vars>>
    /\ UNCHANGED parse_vars

\* mutant: the budget is never found exhausted
TimedOut_Never == FALSE

TimedOut == elapsed > timeout

\* line 44: the for loop is exhausted
LoopExit ==
    /\ pc = "loop"
    /\ i > Len(records)
    /\ pc' = "final"
    /\ UNCHANGED <<table_vars, sync_vars, archive_stats, archive_seq, records, i,
                   archived, skipped, elapsed, timeout, last_req>>
    /\ UNCHANGED log_vars
    /\ UNCHANGED parse_vars

\* lines 45-47
TimeoutBreak ==
    /\ pc = "loop"
    /\ i <= Len(records)
    /\ TimedOut
    /\ pc' = "final"
    /\ UNCHANGED <<table_vars, sync_vars, archive_stats, archive_seq, records, i,
                   archived, skipped, elapsed, timeout, last_req>>
    /\ UNCHANGED log_vars
    /\ UNCHANGED parse_vars

\* lines 49-51
SkipArchived ==
    /\ pc = "loop"
    /\ i <= Len(records)
    /\ ~TimedOut
    /\ records[i].wayback_url # ""
    /\ skipped' = skipped + 1
    /\ i' = i + 1
    /\ UNCHANGED <<table_vars, sync_vars, archive_stats, archive_seq, pc, records,
                   archived, elapsed, timeout, last_req>>
    /\ UNCHANGED log_vars
    /\ UNCHANGED parse_vars

\* lines 53-54
SkipRemoved ==
    /\ pc = "loop"
    /\ i <= Len(records)
    /\ ~TimedOut
    /\ records[i].wayback_url = ""
    /\ records[i].removed # ""
    /\ i' = i + 1
    /\ UNCHANGED <<table_vars, sync_vars, archive_stats, archive_seq, pc, records,
                   archived, skipped, elapsed, timeout, last_req>>
    /\ UNCHANGED log_vars
    /\ UNCHANGED parse_vars

\* mutant: the test of `removed` is missing
Pending_NotArchived(row) == row.wayback_url = ""

\* mutant: the test of `wayback_url` is missing
Pending_NotRemoved(row) == row.removed = ""

\* the rows the loop submits
Pending(row) == row.wayback_url = "" /\ row.removed = ""

\* lines 56-63: the request for row i goes out
IssueRequest ==
    /\ pc = "loop"
    /\ i <= Len(records)
    /\ ~TimedOut
    /\ Pending(records[i])
    /\ last_req' = [idx |-> i, outcome |-> "sent"]
    /\ pc' = "request"
    /\ UNCHANGED <<table_vars, sync_vars, archive_stats, archive_seq, records, i,
                   archived, skipped, elapsed, timeout>>
    /\ req_at' = elapsed
    /\ UNCHANGED failed
    /\ UNCHANGED parse_vars

\* lines 63-71: the endpoint answers with a location
RespondSuccess(url) ==
    /\ pc = "request"
    /\ records' = [records EXCEPT ![i].wayback_url = url]
    /\ archived' = archived + 1
    /\ last_req' = [last_req EXCEPT !.outcome = "ok"]
    /\ pc' = "save_csv"
    /\ UNCHANGED <<table_vars, sync_vars, archive_stats, archive_seq, i, skipped,
                   elapsed, timeout>>
    /\ UNCHANGED log_vars
    /\ UNCHANGED parse_vars

\* mutant: the table is written at the end of the run only
SaveCsv_Deferred ==
    /\ pc = "save_csv"
    /\ pc' = "save_stats"
    /\ UNCHANGED <<table_vars, sync_vars, archive_stats, archive_seq, records, i,
                   archived, skipped, elapsed, timeout, last_req>>
    /\ UNCHANGED log_vars
    /\ UNCHANGED parse_vars

\* mutant: the table is read again and only the row just archived is updated
SaveCsv_Reload ==
    /\ pc = "save_csv"
    /\ csv_exists' = TRUE
    /\ csv_rows' = [k \in DOMAIN csv_rows |->
                      IF csv_rows[k].fullpath = records[i].fullpath
                      THEN [csv_rows[k] EXCEPT !.wayback_url = records[i].wayback_url]
                      ELSE csv_rows[k]]
    /\ pc' = "save_stats"
    /\ UNCHANGED <<sync_vars, archive_stats, archive_seq, records, i, archived,
                   skipped, elapsed, timeout, last_req>>
    /\ UNCHANGED log_vars
    /\ UNCHANGED parse_vars

\* lines 73-76: the whole table is rewritten in the order it was loaded
SaveCsv ==
    /\ pc = "save_csv"
    /\ csv_exists' = TRUE
    /\ csv_rows' = records
    /\ pc' = "save_stats"
    /\ UNCHANGED <<sync_vars, archive_stats, archive_seq, records, i, archived,
                   skipped, elapsed, timeout, last_req>>
    /\ UNCHANGED log_vars
    /\ UNCHANGED parse_vars

\* lines 78-81
SaveStats ==
    /\ pc = "save_stats"
    /\ archive_stats' = <<archived, skipped, 0>>
    /\ pc' = "sleep"
    /\ UNCHANGED <<table_vars, sync_vars, archive_seq, records, i, archived,
                   skipped, elapsed, timeout, last_req>>
    /\ UNCHANGED log_vars
    /\ UNCHANGED parse_vars

\* the step of the for loop after an iteration ends
NextRow == i + 1

\* lines 84-87: HTTP 429: sleep 60, continue
RespondRateLimited ==
    /\ pc = "request"
    /\ last_req' = [last_req EXCEPT !.outcome = "429"]
    /\ elapsed' = elapsed + RateLimitDelay
    /\ i' = NextRow
    /\ pc' = "loop"
    /\ UNCHANGED <<table_vars, sync_vars, archive_stats, archive_seq, records,
                   archived, skipped, timeout>>
    /\ UNCHANGED log_vars
    /\ UNCHANGED parse_vars

\* mutant: a failed submission ends the loop
RespondFailure_Abort(kind) ==
    /\ pc = "request"
    /\ last_req' = [last_req EXCEPT !.outcome = kind]
    /\ pc' = "final"
    /\ UNCHANGED <<table_vars, sync_vars, archive_stats, archive_seq, records, i,
                   archived, skipped, elapsed, timeout>>
    /\ failed' = failed \cup {i}
    /\ UNCHANGED req_at
    /\ UNCHANGED parse_vars

\* lines 83-91: another HTTP error, or any other exception: logged
RespondFailure(kind) ==
    /\ pc = "request"
    /\ last_req' = [last_req EXCEPT !.outcome = kind]
    /\ pc' = "sleep"
    /\ UNCHANGED <<table_vars, sync_vars, archive_stats, archive_seq, records, i,
                   archived, skipped, elapsed, timeout>>
    /\ failed' = failed \cup {i}
    /\ UNCHANGED req_at
    /\ UNCHANGED parse_vars

\* mutant: the pacing delay is missing
Pace_NoDelay ==
    /\ pc = "sleep"
    /\ i' = NextRow
    /\ pc' = "loop"
    /\ UNCHANGED <<table_vars, sync_vars, archive_stats, archive_seq, records,
                   archived, skipped, elapsed, timeout, last_req>>
    /\ UNCHANGED log_vars
    /\ UNCHANGED parse_vars

\* line 93: the pacing delay, then the next row
Pace ==
    /\ pc = "sleep"
    /\ elapsed' = elapsed + PaceDelay
    /\ i' = NextRow
    /\ pc' = "loop"
    /\ UNCHANGED <<table_vars, sync_vars, archive_stats, archive_seq, records,
                   archived, skipped, timeout, last_req>>
    /\ UNCHANGED log_vars
    /\ UNCHANGED parse_vars

\* lines 95-106: the final write of the table and of the stats file, return 0
Finish ==
    /\ pc = "final"
    /\ csv_exists' = TRUE
    /\ csv_rows' = records
    /\ archive_stats' = <<archived, skipped, 0>>
    /\ JobReset
    /\ UNCHANGED <<sync_vars, archive_seq>>
    /\ UNCHANGED parse_vars

\* the process is killed (KeyboardInterrupt is not caught in archive_files.py)
Interrupt ==
    /\ pc # "idle"
    /\ JobReset
    /\ UNCHANGED <<table_vars, sync_vars, archive_stats, archive_seq>>
    /\ UNCHANGED parse_vars

ArchiveStep ==
    \/ ArchiveNoCsv
    \/ \E t \in Timeouts : ArchiveStart(t)
    \/ LoopExit
    \/ TimeoutBreak
    \/ SkipArchived
    \/ SkipRemoved
    \/ IssueRequest
    \/ \E url \in Urls : RespondSuccess(url)
    \/ SaveCsv
    \/ SaveStats
    \/ RespondRateLimited
    \/ \E kind \in Failures : RespondFailure(kind)
    \/ Pace
    \/ Finish
    \/ Interrupt

\* the two jobs run one at a time (the single-writer assumption)
SyncStep ==
    /\ pc = "idle"
    /\ \E file_data \in Snapshots, initial_crawl \in BOOLEAN, today \in Dates :
           SyncRun(file_data, initial_crawl, today)

Next == SyncStep \/ ArchiveStep

Spec == Init /\ [][Next]_vars

\* ------------------------------- the two jobs on one table (SpecInterleaved)
\* neither script takes a lock: a sync run (load at sync_keys.py:154, write at
\* 207) may start and end while an archive run is between its load
\* (archive_files.py:35-39) and one of its writes (73-76, 95-98). The run is
\* placed where the archive job waits, in urlopen (line 63), and is a run
\* without --initial-crawl, the only kind that sets `removed` (lines 199-205)
SyncDuringArchive ==
    /\ pc = "request"
    /\ \E file_data \in Snapshots, today \in Dates :
           SyncRun(file_data, FALSE, today)

NextInterleaved == SyncStep \/ SyncDuringArchive \/ ArchiveStep

SpecInterleaved == Init /\ [][NextInterleaved]_vars

\* ---------------------------------------- the parser on its own (ParseSpec)
\* one iteration of the loop of sync_files (lines 162-169) on the line at hand
ParseLine ==
    /\ ~scanned
    /\ scanned' = TRUE
    /\ parsed' = parse_s3_line(line)
    /\ line_data' = LineEntries(line)
    /\ UNCHANGED line
    /\ UNCHANGED <<table_vars, sync_vars, archive_stats, archive_seq, job_vars>>

ParseInit ==
    /\ JobsInit
    /\ line \in Lines
    /\ scanned = FALSE
    /\ parsed = NotALine
    /\ line_data = {}

ParseSpec == ParseInit /\ [][ParseLine]_vars

\* the steps of a running archive job: the script is sequential, and urlopen
\* returns or raises within its own 60 s timeout, so a run that is not killed
\* keeps taking them
JobProgress ==
    \/ LoopExit
    \/ TimeoutBreak
    \/ SkipArchived
    \/ SkipRemoved
    \/ IssueRequest
    \/ \E url \in Urls : RespondSuccess(url)
    \/ SaveCsv
    \/ SaveStats
    \/ RespondRateLimited
    \/ \E kind \in Failures : RespondFailure(kind)
    \/ Pace
    \/ Finish

SpecFair == Spec /\ WF_vars(JobProgress)

\* ------------------------------------------------------------------ claims
\* the paths of a table, and the row of a path
TablePaths(rows) == {rows[k].fullpath : k \in DOMAIN rows}
RowOf(rows, p) == rows[CHOOSE k \in DOMAIN rows : rows[k].fullpath = p]

\* the step is a run of sync_files; run' holds its inputs
SyncTaken == sync_seq' = sync_seq + 1
\* the previous table was empty (no file, or a file with no row)
NoHistory == ~csv_exists \/ csv_rows = <<>>

\* C1: no step of either job deletes a record: every path of the persisted
\* table before the step is a path of the table after it (in particular when
\* the step is an initial-crawl run and the path is absent from the snapshot).
C1_NeverDeleted ==
    [][TablePaths(csv_rows) \subseteq TablePaths(csv_rows')]_vars

\* C2: after the endpoint answers 429 for a row and the job has waited, the
\* loop is still at that row, so the next request is for the same record.
C2_RetrySameRecord ==
    (pc = "loop" /\ last_req.outcome = "429") => i = last_req.idx

\* C3: `removed` is set at most once.  No step changes a non-empty `removed`
\* of a record it keeps; and a sync run without the initial-crawl flag sets
\* `removed` to the run date for exactly the records of the previous table
\* that had an empty `removed` and whose path is absent from the snapshot.
C3_RemovedSetOnce ==
    [][/\ \A p \in TablePaths(csv_rows) \cap TablePaths(csv_rows') :
            RowOf(csv_rows, p).removed # ""
                => RowOf(csv_rows', p).removed = RowOf(csv_rows, p).removed
       /\ (SyncTaken /\ ~run'.initial_crawl) =>
            /\ \A p \in TablePaths(csv_rows) :
                 (RowOf(csv_rows, p).removed = "" /\ p \notin DOMAIN run'.file_data)
                    => /\ p \in TablePaths(csv_rows')
                       /\ RowOf(csv_rows', p).removed = run'.today
            /\ \A p \in TablePaths(csv_rows') :
                 (/\ RowOf(csv_rows', p).removed # ""
                  /\ (p \in TablePaths(csv_rows) => RowOf(csv_rows, p).removed = ""))
                    => /\ p \in TablePaths(csv_rows)
                       /\ p \notin DOMAIN run'.file_data
                       /\ RowOf(csv_rows', p).removed = run'.today]_vars

\* a record removed on an earlier date is absent again in a later run without
\* the flag, and keeps the earlier date
C3_Witness ==
    /\ pc = "idle"
    /\ ~run.initial_crawl
    /\ \E k \in DOMAIN csv_rows :
          /\ csv_rows[k].fullpath \notin DOMAIN run.file_data
          /\ csv_rows[k].removed \in Dates \ {run.today}

\* C4: a sync run (in either mode) leaves `added`, `removed` and `wayback_url`
\* of every record whose path is in the previous table and in the snapshot
\* unchanged, and sets its `creation` and `size` to the snapshot's values.
C4_PresentUpdated ==
    [][SyncTaken =>
         \A p \in TablePaths(csv_rows) \cap DOMAIN run'.file_data :
            /\ p \in TablePaths(csv_rows')
            /\ \A j \in DOMAIN csv_rows' :
                  csv_rows'[j].fullpath = p =>
                     csv_rows'[j] = [creation |-> run'.file_data[p][1],
                                     size |-> run'.file_data[p][2],
                                     fullpath |-> p,
                                     added |-> RowOf(csv_rows, p).added,
                                     removed |-> RowOf(csv_rows, p).removed,
                                     wayback_url |-> RowOf(csv_rows, p).wayback_url]]_vars

\* an archived record is seen again by a sync run
C4_Witness ==
    /\ pc = "idle"
    /\ sync_seq >= 2
    /\ \E k \in DOMAIN csv_rows :
          /\ csv_rows[k].fullpath \in DOMAIN run.file_data
          /\ csv_rows[k].wayback_url # ""
          /\ csv_rows[k].creation = run.file_data[csv_rows[k].fullpath][1]

\* C5: `added` is set once: it is never empty, and no step of either job (each
\* loads the table from the file and writes it back) changes the `added` of a
\* record that is in the table before and after the step.
C5_AddedSetOnce ==
    [][/\ \A j \in DOMAIN csv_rows' : csv_rows'[j].added # ""
       /\ \A p \in TablePaths(csv_rows) \cap TablePaths(csv_rows') :
            RowOf(csv_rows', p).added = RowOf(csv_rows, p).added]_vars

\* a record created by an initial crawl went through an archive run and
\* through a later sync run of another kind, on a path absent from it
C5_Witness ==
    /\ pc = "idle"
    /\ archive_seq >= 1
    /\ sync_seq >= 2
    /\ ~run.initial_crawl
    /\ \E k \in DOMAIN csv_rows :
          /\ csv_rows[k].added = InitialCrawlMark
          /\ csv_rows[k].wayback_url # ""
          /\ csv_rows[k].removed = run.today

\* C6: the submitter issues a request only for a row whose `wayback_url` and
\* `removed` are both empty, in the table it loaded and in the persisted
\* file, and each request is for a row later in file order than the one before.
C6_OnlyPendingInOrder ==
    [][(pc = "loop" /\ pc' = "request") =>
          /\ last_req'.idx = i'
          /\ i' \in DOMAIN records' /\ i' \in DOMAIN csv_rows'
          /\ records'[i'].wayback_url = "" /\ records'[i'].removed = ""
          /\ csv_rows'[i'].fullpath = records'[i'].fullpath
          /\ csv_rows'[i'].wayback_url = "" /\ csv_rows'[i'].removed = ""
          /\ last_req'.idx > last_req.idx]_vars

\* a request is out for the second row, after the first row, marked removed
\* or already archived, was passed without a request
C6_Witness ==
    /\ pc = "request"
    /\ i = 2
    /\ last_req = [idx |-> 2, outcome |-> "sent"]
    /\ (records[1].removed # "" \/ records[1].wayback_url # "")

\* C7: at every step of an archive run, every `wayback_url` of the loaded
\* table other than the one of the submission in progress is in the persisted
\* table, and the counter of the stats file is the number of completed
\* successes (a submission is in progress until its two writes are done).
C7_Resumable ==
    pc # "idle" =>
       /\ \A k \in DOMAIN records :
             (records[k].wayback_url # "" /\ ~(pc = "save_csv" /\ k = i))
                => /\ k \in DOMAIN csv_rows
                   /\ csv_rows[k].fullpath = records[k].fullpath
                   /\ csv_rows[k].wayback_url = records[k].wayback_url
       /\ Len(archive_stats) = 3
       /\ archive_stats[1] =
             IF pc \in {"save_csv", "save_stats"} THEN archived - 1 ELSE archived

\* a second submission is in flight after a first one succeeded
C7_Witness ==
    /\ pc = "request"
    /\ archived = 1
    /\ i = 2
    /\ csv_rows[1].wayback_url # ""

\* C8: a sync run with the initial-crawl flag, or against an empty table,
\* produces a table in which no record has a `removed` that differs from the
\* one it had before the run (a record created by the run has an empty one).
C8_InitialCrawlNeverRemoves ==
    [][(SyncTaken /\ (run'.initial_crawl \/ NoHistory)) =>
          \A j \in DOMAIN csv_rows' :
             csv_rows'[j].removed =
                IF csv_rows'[j].fullpath \in TablePaths(csv_rows)
                THEN RowOf(csv_rows, csv_rows'[j].fullpath).removed
                ELSE ""]_vars

\* an initial-crawl run saw again the path of a record marked removed by an
\* earlier run, and the record still has its `removed`
C8_Witness ==
    /\ pc = "idle"
    /\ run.initial_crawl
    /\ \E k \in DOMAIN csv_rows :
          /\ csv_rows[k].removed # ""
          /\ csv_rows[k].fullpath \in DOMAIN run.file_data

\* C9: a sync run creates, for every path of the snapshot that is not in the
\* previous table, a record with empty `removed`, empty `wayback_url` and
\* `added` = "initial crawl" if the flag is set or the previous table is
\* empty, the run date otherwise.
C9_NewRecord ==
    [][SyncTaken =>
          \A p \in DOMAIN run'.file_data \ TablePaths(csv_rows) :
             /\ p \in TablePaths(csv_rows')
             /\ \A j \in DOMAIN csv_rows' :
                   csv_rows'[j].fullpath = p =>
                      /\ csv_rows'[j].removed = ""
                      /\ csv_rows'[j].wayback_url = ""
                      /\ csv_rows'[j].added =
                            IF run'.initial_crawl \/ NoHistory
                            THEN "initial crawl" ELSE run'.today]_vars

\* a run without the flag against a table with history created a record, and
\* the table holds a record of an initial crawl too
C9_Witness ==
    /\ pc = "idle"
    /\ ~run.initial_crawl
    /\ sync_stats # <<>> /\ sync_stats[1] >= 1
    /\ \E k, j \in DOMAIN csv_rows :
          /\ csv_rows[k].added = run.today
          /\ csv_rows[k].fullpath \in DOMAIN run.file_data
          /\ csv_rows[j].added = "initial crawl"

\* C10: a sync run without the flag that repeats the snapshot of the sync run
\* before it, itself without the flag, leaves the table as it is and reports
\* 0 new and 0 removed, whatever the two run dates.
C10_Idempotent ==
    [][(/\ SyncTaken
        /\ sync_seq >= 1
        /\ run'.file_data = run.file_data
        /\ ~run.initial_crawl
        /\ ~run'.initial_crawl) =>
          /\ csv_exists' /\ csv_exists
          /\ csv_rows' = csv_rows
          /\ sync_stats' = <<0, 0>>]_vars

\* the second of two runs with one snapshot has run on another date than the
\* first, which had marked a record removed
C10_Witness ==
    /\ pc = "idle"
    /\ repeated
    /\ \E k \in DOMAIN csv_rows :
          /\ csv_rows[k].removed \in Dates \ {run.today}
          /\ csv_rows[k].fullpath \notin DOMAIN run.file_data

\* C11: a submission that fails with an HTTP error other than 429 or with a
\* network error changes no field of any record, in memory or in the file,
\* and the job goes on, through the pacing delay, to the next row; the failed
\* row is pending, with an empty `wayback_url`, for the rest of the run and in
\* the table the run leaves behind, which is the one the next run loads.
C11_FailureLeavesPending ==
    /\ [](\A k \in failed :
             /\ k \in DOMAIN records /\ k \in DOMAIN csv_rows
             /\ records[k].wayback_url = "" /\ records[k].removed = ""
             /\ csv_rows[k] = records[k])
    /\ [][(pc = "request" /\ last_req'.outcome \in Failures) =>
             /\ records' = records
             /\ csv_rows' = csv_rows
             /\ pc' = "sleep" /\ i' = i /\ failed' = failed \cup {i}]_vars
    /\ [][(pc = "sleep" /\ pc' # "idle") =>
             /\ pc' = "loop" /\ i' = i + 1
             /\ records' = records /\ csv_rows' = csv_rows]_vars
    /\ [][(pc # "idle" /\ pc' = "idle") =>
             \A k \in failed :
                /\ k \in DOMAIN csv_rows'
                /\ csv_rows'[k] = records[k]]_vars

\* after the failure of the first row the job has gone on to the second row
C11_Witness ==
    /\ pc = "request"
    /\ failed = {1}
    /\ i = 2
    /\ csv_rows[1].wayback_url = ""

\* C12: once the elapsed time exceeds the timeout the job issues no request:
\* at the top of the loop it can only leave the loop, changing nothing; the
\* rows from the row of the loop on are then as they are in the file, and the
\* final write leaves them so (a pending one stays pending); and every run
\* that is started ends, whatever the endpoint answers.
C12_TimeoutStops ==
    /\ [][elapsed > timeout => pc' # "request"]_vars
    /\ [][(pc = "loop" /\ elapsed > timeout /\ pc' # "idle") =>
             /\ pc' = "final"
             /\ records' = records /\ csv_rows' = csv_rows /\ i' = i]_vars
    /\ [](pc \in {"loop", "final"} =>
             \A k \in DOMAIN records :
                k >= i => (k \in DOMAIN csv_rows /\ csv_rows[k] = records[k]))
    /\ [][(pc = "final" /\ pc' = "idle") =>
             \A k \in DOMAIN records :
                k >= i => (k \in DOMAIN csv_rows' /\ csv_rows'[k] = records[k])]_vars
    /\ ((pc # "idle") ~> (pc = "idle"))

\* the budget ran out with a pending row not yet reached
C12_Witness ==
    /\ pc = "final"
    /\ elapsed > timeout
    /\ i \in DOMAIN records
    /\ records[i].wayback_url = "" /\ records[i].removed = ""
    /\ csv_rows[i].wayback_url = ""

\* C13: in every state the persisted table has its rows in strictly ascending
\* order of `fullpath`, hence no two rows with one `fullpath`, whichever job
\* wrote it last.
C13_SortedUnique ==
    \A j, k \in DOMAIN csv_rows :
       j < k => csv_rows[j].fullpath < csv_rows[k].fullpath

\* a table of two rows written by a sync run and rewritten by an archive run
C13_Witness ==
    /\ pc = "idle"
    /\ sync_seq >= 1
    /\ archive_seq >= 1
    /\ Len(csv_rows) >= 2
    /\ csv_rows[2].wayback_url # ""

\* C14: when a request goes out after another request of the run, the job
\* has slept in between: the rate-limit delay if the earlier request was
\* answered 429, the pacing delay if it succeeded or failed.
C14_DelayBetweenRequests ==
    [][(pc = "loop" /\ pc' = "request" /\ last_req.idx # 0) =>
          /\ last_req.outcome \in {"ok", "429"} \cup Failures
          /\ elapsed' >= req_at + PaceDelay
          /\ elapsed' = req_at + (IF last_req.outcome = "429"
                                  THEN RateLimitDelay ELSE PaceDelay)]_vars

\* the second request of a run goes out after the first was answered 429
C14_Witness ==
    /\ pc = "request"
    /\ last_req = [idx |-> 2, outcome |-> "sent"]
    /\ req_at = RateLimitDelay
    /\ elapsed = RateLimitDelay

\* the positions of a line where a field starts: no whitespace there, and
\* whitespace, or nothing, before
FieldStarts(s) ==
    {k \in 1..Len(s) : s[k] # " " /\ (k = 1 \/ s[k - 1] = " ")}
NthFieldStart(s, n) ==
    CHOOSE k \in FieldStarts(s) : Cardinality({j \in FieldStarts(s) : j < k}) = n - 1
\* the field that starts at k: up to the next whitespace or the end of the line
FieldAt(s, k) ==
    LET e == CHOOSE e \in k..Len(s) :
                 /\ \A j \in k..e : s[j] # " "
                 /\ (e = Len(s) \/ s[e + 1] = " ")
    IN SubSeq(s, k, e)

\* C15: the parser accepts a line exactly when the line has at least four
\* whitespace-separated fields, the fourth being the whole remainder of the
\* line, and the remainder does not end in "/"; it then returns creation =
\* first field, one space, second field; size = third field; path = the
\* remainder; a line it rejects adds no entry to the snapshot, a line it
\* accepts adds the one (path, creation, size).
C15_ParserAccepts ==
    scanned =>
       LET accepted == Cardinality(FieldStarts(line)) >= 4 /\ line[Len(line)] # "/"
       IN /\ parsed.accepted = accepted
          /\ ~accepted => (parsed = NotALine /\ line_data = {})
          /\ accepted =>
               LET path == SubSeq(line, NthFieldStart(line, 4), Len(line))
                   creation == FieldAt(line, NthFieldStart(line, 1)) \o <<" ">>
                                  \o FieldAt(line, NthFieldStart(line, 2))
                   size == FieldAt(line, NthFieldStart(line, 3))
               IN /\ parsed.creation = creation
                  /\ parsed.size = size
                  /\ parsed.fullpath = path
                  /\ line_data = {<<path, creation, size>>}

\* a line is accepted whose path holds whitespace
C15_Witness ==
    /\ scanned
    /\ parsed.accepted
    /\ \E k \in DOMAIN parsed.fullpath : parsed.fullpath[k] = " "
    /\ line_data # {}

\* C16: a step of the archive job never adds or drops a row of the table
\* and changes no field but `wayback_url`, which it changes only from empty
\* to non-empty; and no step of either job changes a non-empty `wayback_url`
\* of a record it keeps.
C16_UrlWrittenOnce ==
    /\ [][~SyncTaken =>
             /\ Len(csv_rows') = Len(csv_rows)
             /\ \A k \in DOMAIN csv_rows :
                   \/ csv_rows'[k] = csv_rows[k]
                   \/ /\ csv_rows[k].wayback_url = ""
                      /\ csv_rows'[k].wayback_url # ""
                      /\ csv_rows'[k] =
                            [csv_rows[k] EXCEPT !.wayback_url = csv_rows'[k].wayback_url]]_vars
    /\ [][\A p \in TablePaths(csv_rows) \cap TablePaths(csv_rows') :
             RowOf(csv_rows, p).wayback_url # ""
                => RowOf(csv_rows', p).wayback_url = RowOf(csv_rows, p).wayback_url]_vars

\* a second archive run passes a row that an earlier run archived
C16_Witness ==
    /\ archive_seq = 2
    /\ pc = "loop"
    /\ skipped >= 1
    /\ csv_rows[1].wayback_url # ""
    /\ records[1] = csv_rows[1]

\* C17: a sync run that finds in its snapshot the path of a record with a
\* non-empty `removed` keeps that `removed`, refreshes `creation` and `size`
\* only, and does not count the path as new; and the archive job passes a
\* row with a non-empty `removed` and an empty `wayback_url` without a
\* request, so such a record is never submitted while it stays in the table.
C17_ReappearedStaysRemoved ==
    /\ [][SyncTaken =>
             \A p \in TablePaths(csv_rows) \cap DOMAIN run'.file_data :
                RowOf(csv_rows, p).removed # "" =>
                   /\ p \in TablePaths(csv_rows')
                   /\ RowOf(csv_rows', p) =
                         [RowOf(csv_rows, p) EXCEPT !.creation = run'.file_data[p][1],
                                                    !.size = run'.file_data[p][2]]
                   /\ sync_stats'[1] =
                         Cardinality(DOMAIN run'.file_data \ TablePaths(csv_rows))]_vars
    /\ [][(/\ pc = "loop" /\ i \in DOMAIN records
           /\ records[i].removed # "" /\ records[i].wayback_url = ""
           /\ pc' # "idle") =>
             /\ pc' \in {"loop", "final"}
             /\ records' = records /\ csv_rows' = csv_rows
             /\ last_req' = last_req]_vars

\* the path of a record marked removed, and not archived, is in the snapshot
\* of a later run without the flag, which created nothing
C17_Witness ==
    /\ pc = "idle"
    /\ ~run.initial_crawl
    /\ sync_stats = <<0, 0>>
    /\ \E k \in DOMAIN csv_rows :
          /\ csv_rows[k].removed # ""
          /\ csv_rows[k].wayback_url = ""
          /\ csv_rows[k].fullpath \in DOMAIN run.file_data
          /\ csv_rows[k].creation = run.file_data[csv_rows[k].fullpath][1]

\* C18: when the two jobs interleave, every write of the table by the
\* archive job puts the job's own copy in the file, whatever a sync run has
\* written since the job loaded the table: the paths that are in the file and
\* not in the copy are gone after the write, and every `removed` is the
\* copy's.
C18_ArchiveWriteReplaces ==
    [][(~SyncTaken /\ csv_rows' # csv_rows) =>
          /\ csv_rows' = records
          /\ \A p \in TablePaths(csv_rows) \ TablePaths(records) :
                p \notin TablePaths(csv_rows')
          /\ \A k \in DOMAIN records : csv_rows'[k].removed = records[k].removed]_vars

\* the lost update: the archive job has just written the table, and the
\* record the last sync run created is not in it, and the `removed` mark
\* that run set is not in it either
C18_Witness ==
    /\ pc = "save_stats"
    /\ ~run.initial_crawl
    /\ sync_stats[1] >= 1
    /\ sync_stats[2] >= 1
    /\ \E p \in DOMAIN run.file_data : p \notin TablePaths(csv_rows)
    /\ \E k \in DOMAIN csv_rows :
          /\ csv_rows[k].fullpath \notin DOMAIN run.file_data
          /\ csv_rows[k].removed = ""

====
